---------------------------- MODULE Spec2Model ----------------------------
(***************************************************************************)
(* Model of calicoctl/commands/convert.go: the `calicoctl convert` command *)
(* (Convert), its per-kind dispatch (convertResource) and the two-stage    *)
(* conversion of one resource (convert).                                   *)
(*                                                                         *)
(* Strings that the code inspects character by character (the resource     *)
(* Kind, which is lower-cased before the switch) are sequences of runes,   *)
(* each rune a string: the character itself, or the code point's name for  *)
(* a rune outside ASCII.                                                   *)
(***************************************************************************)
EXTENDS Naturals, Sequences, FiniteSets, TLC

VARIABLES
    pc,        \* position of the control flow inside Convert
    output,    \* parsedArgs["--output"]
    rp,        \* the selected resourcePrinter
    loaded,    \* CreateResourcesFromFile has returned without error
    resV1,     \* the v1 resources returned by the loader
    i,         \* 1-based position of the range loop over resV1
    results,   \* the slice of converted v3 resources
    conv,      \* convRes: the converter convertResource passed to convert
    kvp,       \* the KVPair returned by APIV1ToBackendV1
    ret,       \* the (resource, error) pair convertResource returns
    stdout,    \* the lines written with fmt.Printf / fmt.Println
    logs,      \* the lines written with log.Infof
    exit,      \* "running", "returned" (Convert returned) or "exit1" (os.Exit(1))
    calls      \* history of the calls made: dispatch, the two stages, print

vars == <<pc, output, rp, loaded, resV1, i, results, conv, kvp, ret,
          stdout, logs, exit, calls>>

---------------------------------------------------------------------------
(* Bounds of the model.                                                    *)

\* longest batch of resources the loader returns
MaxBatch == 3
\* most upper-case letters in an enumerated casing of a kind (the all-upper
\* casing is always enumerated too)
MaxUpper == 2

---------------------------------------------------------------------------
(* Runes and strings.                                                      *)

Nil == [tag |-> "nil"]

UpperRunes == <<"A", "B", "C", "D", "E", "F", "G", "H", "I", "J", "K", "L", "M",
                "N", "O", "P", "Q", "R", "S", "T", "U", "V", "W", "X", "Y", "Z">>
LowerRunes == <<"a", "b", "c", "d", "e", "f", "g", "h", "i", "j", "k", "l", "m",
                "n", "o", "p", "q", "r", "s", "t", "u", "v", "w", "x", "y", "z">>

\* U+212A KELVIN SIGN, a non-ASCII rune whose lower case is the ASCII 'k'
KelvinSign == "U+212A"

\* unicode.ToLower on one rune, as strings.ToLower applies it
ToLowerRune(c) ==
    IF \E k \in 1..26 : UpperRunes[k] = c
    THEN LowerRunes[CHOOSE k \in 1..26 : UpperRunes[k] = c]
    ELSE IF c = KelvinSign THEN "k" ELSE c

\* a lower-casing that leaves the string as it is
ToLowerNoop(s) == s

\* strings.ToLower
ToLower(s) == [k \in 1..Len(s) |-> ToLowerRune(s[k])]

\* the case labels of convertResource's switch
nodeStr == <<"n", "o", "d", "e">>
hostendpointStr == <<"h", "o", "s", "t", "e", "n", "d", "p", "o", "i", "n", "t">>
workloadendpointStr == <<"w", "o", "r", "k", "l", "o", "a", "d", "e", "n", "d", "p", "o", "i", "n", "t">>
profileStr == <<"p", "r", "o", "f", "i", "l", "e">>
policyStr == <<"p", "o", "l", "i", "c", "y">>
ippoolStr == <<"i", "p", "p", "o", "o", "l">>
bgppeerStr == <<"b", "g", "p", "p", "e", "e", "r">>

\* the switch of convertResource on the lower-cased kind: the conversion.X{}
\* it passes to convert, or "default"
KindSwitch(lk) ==
    CASE lk = nodeStr -> "Node"
      [] lk = hostendpointStr -> "HostEndpoint"
      [] lk = workloadendpointStr -> "WorkloadEndpoint"
      [] lk = profileStr -> "Profile"
      [] lk = policyStr -> "Policy"
      [] lk = ippoolStr -> "IPPool"
      [] lk = bgppeerStr -> "BGPPeer"
      [] OTHER -> "default"

\* an error whose message carries the lower-cased kind
UnsupportedKindErrorLowered(kind) ==
    [tag |-> "err", type |-> "UnsupportedKind", kind |-> ToLower(kind)]

\* fmt.Errorf("conversion for the resource type '%s' is not supported", Kind)
UnsupportedKindError(kind) ==
    [tag |-> "err", type |-> "UnsupportedKind", kind |-> kind]

---------------------------------------------------------------------------
(* The conversion.Converter interface.  Its implementations live in        *)
(* libcalico-go; both stages are deterministic functions of their          *)
(* argument.  A v1 resource carries, beside its Kind, the shape that       *)
(* decides which stage (if any) rejects it.                                *)

Shapes == {"ok", "badV1", "badKVP"}

ConversionError(convRes, stage, arg) ==
    [tag |-> "err", type |-> "ConversionError", conv |-> convRes,
     stage |-> stage, arg |-> arg]

\* convRes.APIV1ToBackendV1(v1resource): (kvp, err)
APIV1ToBackendV1(convRes, v1resource) ==
    IF v1resource.shape = "badV1"
    THEN [kvp |-> Nil, err |-> ConversionError(convRes, "APIV1ToBackendV1", v1resource)]
    ELSE [kvp |-> [tag |-> "kvp", conv |-> convRes, v1 |-> v1resource], err |-> Nil]

\* convRes.BackendV1ToAPIV3(kvp): (res, err)
BackendV1ToAPIV3(convRes, kv) ==
    IF kv.v1.shape = "badKVP"
    THEN [res |-> Nil, err |-> ConversionError(convRes, "BackendV1ToAPIV3", kv)]
    ELSE [res |-> [tag |-> "v3", conv |-> convRes, kvp |-> kv], err |-> Nil]

---------------------------------------------------------------------------
(* Inputs.                                                                 *)

ToUpperRune(c) ==
    IF \E k \in 1..26 : LowerRunes[k] = c
    THEN UpperRunes[CHOOSE k \in 1..26 : LowerRunes[k] = c]
    ELSE c

\* the string w with the letters at the positions in S in upper case
WithUpper(w, S) == [k \in 1..Len(w) |-> IF k \in S THEN ToUpperRune(w[k]) ELSE w[k]]

\* the casings of w with at most MaxUpper upper-case letters, and the
\* all-upper casing
Casings(w) ==
    {WithUpper(w, S) : S \in {T \in SUBSET (1..Len(w)) : Cardinality(T) <= MaxUpper}}
        \cup {WithUpper(w, 1..Len(w))}

RecognizedKinds ==
    {nodeStr, hostendpointStr, workloadendpointStr, profileStr, policyStr,
     ippoolStr, bgppeerStr}

widgetStr == <<"w", "i", "d", "g", "e", "t">>
nodesStr == <<"n", "o", "d", "e", "s">>
nodStr == <<"n", "o", "d">>

\* kind strings in many casings, recognized and not
WideKinds ==
    (UNION {Casings(w) : w \in RecognizedKinds})
        \cup {[workloadendpointStr EXCEPT ![4] = KelvinSign]}
        \cup Casings(widgetStr) \cup Casings(nodesStr) \cup Casings(nodStr)
        \cup {<< >>}

Resource(kind, shape) == [tag |-> "v1", kind |-> kind, shape |-> shape]

\* the resources of the longer batches
BatchResources ==
    {Resource(WithUpper(nodeStr, {1}), s) : s \in Shapes}
        \cup {Resource(policyStr, s) : s \in Shapes}
        \cup {Resource(WithUpper(ippoolStr, {1, 2, 3}), "ok")}
        \cup {Resource(WithUpper(widgetStr, {1}), "ok")}

SeqsUpTo(S, n) == UNION {[1..m -> S] : m \in 0..n}

\* what v1resourceloader.CreateResourcesFromFile may return as resources
LoadableBatches ==
    SeqsUpTo(BatchResources, MaxBatch)
        \cup {<<Resource(k, s)>> : k \in WideKinds, s \in Shapes}

\* the values of --output
Outputs == {"yaml", "yml", "json", "wide"}

PrinterError == [tag |-> "err", type |-> "PrinterError"]

---------------------------------------------------------------------------
(* The state machine.                                                      *)

NoRet == [res |-> Nil, err |-> Nil]

Call(op, idx, c, arg, out) ==
    [op |-> op, idx |-> idx, conv |-> c, arg |-> arg, out |-> out]

FailedLine(err) == [line |-> "Failed to execute command", err |-> err]

Init ==
    /\ pc = "parseArgs"
    /\ output = ""
    /\ rp = "nil"
    /\ loaded = FALSE
    /\ resV1 = << >>
    /\ i = 0
    /\ results = << >>
    /\ conv = "none"
    /\ kvp = Nil
    /\ ret = NoRet
    /\ stdout = << >>
    /\ logs = << >>
    /\ exit = "running"
    /\ calls = << >>

\* docopt.Parse and the two checks of its result
ParseArgs ==
    /\ pc = "parseArgs"
    /\ \E outcome \in {"invalid", "help"} \cup Outputs :
         IF outcome = "invalid"
         THEN /\ stdout' = Append(stdout, [line |-> "Invalid option", err |-> Nil])
              /\ exit' = "exit1"
              /\ pc' = "exited"
              /\ UNCHANGED output
         ELSE IF outcome = "help"
         THEN /\ exit' = "returned"
              /\ pc' = "done"
              /\ UNCHANGED <<stdout, output>>
         ELSE /\ output' = outcome
              /\ pc' = "selectPrinter"
              /\ UNCHANGED <<stdout, exit>>
    /\ UNCHANGED <<rp, loaded, resV1, i, results, conv, kvp, ret, logs, calls>>

\* the switch on the output format and the check of rp
SelectPrinter ==
    /\ pc = "selectPrinter"
    /\ rp' = CASE output \in {"yaml", "yml"} -> "resourcePrinterYAML"
               [] output = "json" -> "resourcePrinterJSON"
               [] OTHER -> "nil"
    /\ IF rp' = "nil"
       THEN /\ stdout' = Append(stdout, [line |-> "unrecognized output format", err |-> Nil])
            /\ exit' = "exit1"
            /\ pc' = "exited"
       ELSE /\ pc' = "load"
            /\ UNCHANGED <<stdout, exit>>
    /\ UNCHANGED <<output, loaded, resV1, i, results, conv, kvp, ret, logs, calls>>

LoadError == [tag |-> "err", type |-> "LoadError"]

\* v1resourceloader.CreateResourcesFromFile and the check of its error
LoadResources ==
    /\ pc = "load"
    /\ \/ /\ stdout' = Append(stdout, FailedLine(LoadError))
          /\ exit' = "exit1"
          /\ pc' = "exited"
          /\ UNCHANGED <<loaded, resV1, i>>
       \/ \E batch \in LoadableBatches :
            /\ resV1' = batch
            /\ loaded' = TRUE
            /\ i' = 1
            /\ pc' = "loop"
            /\ UNCHANGED <<stdout, exit>>
    /\ UNCHANGED <<output, rp, results, conv, kvp, ret, logs, calls>>

\* the head of the range loop over resV1
LoopHead ==
    /\ pc = "loop"
    /\ pc' = IF i <= Len(resV1) THEN "convertResource" ELSE "log"
    /\ UNCHANGED <<output, rp, loaded, resV1, i, results, conv, kvp, ret,
                   stdout, logs, exit, calls>>

\* convertResource: the switch on the lower-cased Kind
ConvertResource ==
    /\ pc = "convertResource"
    /\ LET kind == resV1[i].kind
           c == KindSwitch(ToLower(kind))
       IN IF c # "default"
          THEN /\ conv' = c
               /\ calls' = Append(calls, Call("dispatch", i, c, kind, Nil))
               /\ pc' = "APIV1ToBackendV1"
               /\ UNCHANGED ret
          ELSE /\ ret' = [res |-> Nil, err |-> UnsupportedKindError(kind)]
               /\ calls' = Append(calls, Call("dispatch", i, c, kind, ret'.err))
               /\ pc' = "checkErr"
               /\ UNCHANGED conv
    /\ UNCHANGED <<output, rp, loaded, resV1, i, results, kvp, stdout, logs, exit>>

\* convert: the first stage and the check of its error
ToBackend ==
    /\ pc = "APIV1ToBackendV1"
    /\ LET r == APIV1ToBackendV1(conv, resV1[i])
       IN /\ calls' = Append(calls, Call("APIV1ToBackendV1", i, conv, resV1[i], r))
          /\ IF r.err # Nil
             THEN /\ ret' = [res |-> Nil, err |-> r.err]
                  /\ pc' = "checkErr"
                  /\ UNCHANGED kvp
             ELSE /\ kvp' = r.kvp
                  /\ pc' = "BackendV1ToAPIV3"
                  /\ UNCHANGED ret
    /\ UNCHANGED <<output, rp, loaded, resV1, i, results, conv, stdout, logs, exit>>

\* a second stage whose error is dropped: convert returns (res, nil)
ToV3Swallow ==
    /\ pc = "BackendV1ToAPIV3"
    /\ LET r == BackendV1ToAPIV3(conv, kvp)
       IN /\ calls' = Append(calls, Call("BackendV1ToAPIV3", i, conv, kvp, r))
          /\ ret' = [res |-> r.res, err |-> Nil]
          /\ pc' = "checkErr"
    /\ UNCHANGED <<output, rp, loaded, resV1, i, results, conv, kvp, stdout, logs, exit>>

\* convert: the second stage, the check of its error and the return
ToV3 ==
    /\ pc = "BackendV1ToAPIV3"
    /\ LET r == BackendV1ToAPIV3(conv, kvp)
       IN /\ calls' = Append(calls, Call("BackendV1ToAPIV3", i, conv, kvp, r))
          /\ ret' = IF r.err # Nil THEN [res |-> Nil, err |-> r.err]
                                   ELSE [res |-> r.res, err |-> Nil]
          /\ pc' = "checkErr"
    /\ UNCHANGED <<output, rp, loaded, resV1, i, results, conv, kvp, stdout, logs, exit>>

\* an append that puts the new resource in front
PrependResult(rs, r) == <<r>> \o rs

\* results = append(results, v3Resource)
AppendResult(rs, r) == Append(rs, r)

\* a loop body that reports the error and goes on to print what it has
CheckErrPrintPartial ==
    /\ pc = "checkErr"
    /\ IF ret.err # Nil
       THEN /\ stdout' = Append(stdout, FailedLine(ret.err))
            /\ pc' = "log"
            /\ UNCHANGED <<i, results, conv, kvp, ret, exit>>
       ELSE /\ results' = AppendResult(results, ret.res)
            /\ i' = i + 1
            /\ conv' = "none"
            /\ kvp' = Nil
            /\ ret' = NoRet
            /\ pc' = "loop"
            /\ UNCHANGED <<stdout, exit>>
    /\ UNCHANGED <<output, rp, loaded, resV1, logs, calls>>

\* a loop body that reports the error and goes on with the next resource
CheckErrSkip ==
    /\ pc = "checkErr"
    /\ IF ret.err # Nil
       THEN /\ stdout' = Append(stdout, FailedLine(ret.err))
            /\ UNCHANGED results
       ELSE /\ results' = AppendResult(results, ret.res)
            /\ UNCHANGED stdout
    /\ i' = i + 1
    /\ conv' = "none"
    /\ kvp' = Nil
    /\ ret' = NoRet
    /\ pc' = "loop"
    /\ UNCHANGED <<output, rp, loaded, resV1, logs, calls, exit>>

\* a loop body that returns from Convert with the error left in ret
\* instead of ending the process
CheckErrReturn ==
    /\ pc = "checkErr"
    /\ IF ret.err # Nil
       THEN /\ exit' = "returned"
            /\ pc' = "done"
            /\ UNCHANGED <<i, results, conv, kvp, ret, stdout>>
       ELSE /\ results' = AppendResult(results, ret.res)
            /\ i' = i + 1
            /\ conv' = "none"
            /\ kvp' = Nil
            /\ ret' = NoRet
            /\ pc' = "loop"
            /\ UNCHANGED <<stdout, exit>>
    /\ UNCHANGED <<output, rp, loaded, resV1, logs, calls>>

\* a loop body that converts a failed resource a second time
CheckErrRetry ==
    /\ pc = "checkErr"
    /\ IF ret.err # Nil
       THEN IF Cardinality({p \in DOMAIN calls :
                              calls[p].op = "dispatch" /\ calls[p].idx = i}) < 2
            THEN /\ ret' = NoRet
                 /\ conv' = "none"
                 /\ kvp' = Nil
                 /\ pc' = "convertResource"
                 /\ UNCHANGED <<i, results, stdout, exit>>
            ELSE /\ stdout' = Append(stdout, FailedLine(ret.err))
                 /\ exit' = "exit1"
                 /\ pc' = "exited"
                 /\ UNCHANGED <<i, results, conv, kvp, ret>>
       ELSE /\ results' = AppendResult(results, ret.res)
            /\ i' = i + 1
            /\ conv' = "none"
            /\ kvp' = Nil
            /\ ret' = NoRet
            /\ pc' = "loop"
            /\ UNCHANGED <<stdout, exit>>
    /\ UNCHANGED <<output, rp, loaded, resV1, logs, calls>>

\* the body of the loop after convertResource has returned
CheckErr ==
    /\ pc = "checkErr"
    /\ IF ret.err # Nil
       THEN /\ stdout' = Append(stdout, FailedLine(ret.err))
            /\ exit' = "exit1"
            /\ pc' = "exited"
            /\ UNCHANGED <<i, results, conv, kvp, ret>>
       ELSE /\ results' = AppendResult(results, ret.res)
            /\ i' = i + 1
            /\ conv' = "none"
            /\ kvp' = Nil
            /\ ret' = NoRet
            /\ pc' = "loop"
            /\ UNCHANGED <<stdout, exit>>
    /\ UNCHANGED <<output, rp, loaded, resV1, logs, calls>>

\* log.Infof("results: %+v", results)
LogResults ==
    /\ pc = "log"
    /\ logs' = Append(logs, results)
    /\ pc' = "print"
    /\ UNCHANGED <<output, rp, loaded, resV1, i, results, conv, kvp, ret,
                   stdout, exit, calls>>

\* a Convert that prints nothing when there is nothing to print
PrintResultsSkipEmpty ==
    /\ pc = "print"
    /\ IF results = << >>
       THEN UNCHANGED <<calls, stdout>>
       ELSE \E err \in {Nil, PrinterError} :
              /\ calls' = Append(calls, Call("print", 0, rp, results, err))
              /\ stdout' = IF err # Nil THEN Append(stdout, [line |-> "", err |-> err])
                                        ELSE stdout
    /\ exit' = "returned"
    /\ pc' = "done"
    /\ UNCHANGED <<output, rp, loaded, resV1, i, results, conv, kvp, ret, logs>>

\* rp.print(nil, results), the check of its error and the return of Convert
PrintResults ==
    /\ pc = "print"
    /\ \E err \in {Nil, PrinterError} :
         /\ calls' = Append(calls, Call("print", 0, rp, results, err))
         /\ stdout' = IF err # Nil THEN Append(stdout, [line |-> "", err |-> err])
                                   ELSE stdout
    /\ exit' = "returned"
    /\ pc' = "done"
    /\ UNCHANGED <<output, rp, loaded, resV1, i, results, conv, kvp, ret, logs>>

Next ==
    \/ ParseArgs
    \/ SelectPrinter
    \/ LoadResources
    \/ LoopHead
    \/ ConvertResource
    \/ ToBackend
    \/ ToV3
    \/ CheckErr
    \/ LogResults
    \/ PrintResults

Spec == Init /\ [][Next]_vars

TypeOK ==
    /\ pc \in {"parseArgs", "selectPrinter", "load", "loop", "convertResource",
               "APIV1ToBackendV1", "BackendV1ToAPIV3", "checkErr", "log",
               "print", "done", "exited"}
    /\ exit \in {"running", "returned", "exit1"}
    /\ i \in 0..(MaxBatch + 1)
    /\ Len(results) <= Len(resV1)

---------------------------------------------------------------------------
(* Vocabulary of the properties.                                           *)

Last(s) == s[Len(s)]

CallsOf(op) == {p \in DOMAIN calls : calls[p].op = op}

StageOps == {"APIV1ToBackendV1", "BackendV1ToAPIV3"}

\* the call at position p returned an error
CallFailed(p) ==
    CASE calls[p].op \in {"dispatch", "print"} -> calls[p].out # Nil
      [] OTHER -> calls[p].out.err # Nil

\* the error the call at position p returned
CallError(p) ==
    CASE calls[p].op \in {"dispatch", "print"} -> calls[p].out
      [] OTHER -> calls[p].out.err

\* s is w in some letter-casing
IsCasingOf(s, w) ==
    /\ Len(s) = Len(w)
    /\ \A k \in 1..Len(w) : s[k] \in {w[k], ToUpperRune(w[k])}

\* the converter named after each recognized kind
ConverterNamed ==
    {<<nodeStr, "Node">>, <<hostendpointStr, "HostEndpoint">>,
     <<workloadendpointStr, "WorkloadEndpoint">>, <<profileStr, "Profile">>,
     <<policyStr, "Policy">>, <<ippoolStr, "IPPool">>, <<bgppeerStr, "BGPPeer">>}

\* the outcome of converting r alone: [res, err]
Converted(r) ==
    LET c == KindSwitch(ToLower(r.kind))
    IN IF c = "default"
       THEN [res |-> Nil, err |-> UnsupportedKindError(r.kind)]
       ELSE LET b == APIV1ToBackendV1(c, r)
            IN IF b.err # Nil
               THEN [res |-> Nil, err |-> b.err]
               ELSE LET v == BackendV1ToAPIV3(c, b.kvp)
                    IN IF v.err # Nil THEN [res |-> Nil, err |-> v.err]
                                      ELSE [res |-> v.res, err |-> Nil]

Convertible(r) == Converted(r).err = Nil

AllConvertible == \A k \in DOMAIN resV1 : Convertible(resV1[k])

\* the smallest index whose resource fails
FirstFailing == CHOOSE k \in DOMAIN resV1 :
    /\ ~Convertible(resV1[k])
    /\ \A j \in 1..(k - 1) : Convertible(resV1[j])

Finished == pc \in {"done", "exited"}

---------------------------------------------------------------------------
(* The properties.                                                         *)

\* C1: when every loaded resource has a recognized kind and both stages
\* succeed on it, the run hands the printer, once, a sequence as long as the
\* input whose k-th element is the second stage applied to the first stage
\* applied to the k-th input, both of the converter chosen for its kind.
C1_OrderPreserved ==
    (loaded /\ AllConvertible) =>
        /\ \A p \in CallsOf("print") :
             /\ Len(calls[p].arg) = Len(resV1)
             /\ \A k \in DOMAIN resV1 :
                  LET c == KindSwitch(ToLower(resV1[k].kind))
                  IN calls[p].arg[k] =
                       BackendV1ToAPIV3(c, APIV1ToBackendV1(c, resV1[k]).kvp).res
        /\ Finished => Cardinality(CallsOf("print")) = 1
        /\ \A k \in DOMAIN results : results[k] = Converted(resV1[k]).res

C1_Witness ==
    /\ pc = "done"
    /\ loaded
    /\ AllConvertible
    /\ Len(resV1) >= 3
    /\ resV1[1].kind # resV1[2].kind
    /\ resV1[2].kind # resV1[3].kind
    /\ resV1[1].kind # resV1[3].kind
    /\ CallsOf("print") # {}

\* C2: when some loaded resource has an unsupported kind or is rejected by a
\* stage, the printer is never called and Convert never returns; a finished
\* run has ended the process with status 1 after printing the failure.
C2_AllOrNothing ==
    (loaded /\ ~AllConvertible) =>
        /\ CallsOf("print") = {}
        /\ pc \notin {"log", "print", "done"}
        /\ exit # "returned"
        /\ logs = << >>
        /\ Finished =>
             /\ exit = "exit1"
             /\ Last(stdout).line = "Failed to execute command"
             /\ Last(stdout).err.type \in {"UnsupportedKind", "ConversionError"}

C2_Witness ==
    /\ pc = "exited"
    /\ loaded
    /\ Len(resV1) = 3
    /\ Convertible(resV1[1]) /\ KindSwitch(ToLower(resV1[1].kind)) = "Node"
    /\ KindSwitch(ToLower(resV1[2].kind)) = "default"
    /\ Convertible(resV1[3]) /\ KindSwitch(ToLower(resV1[3].kind)) = "Policy"
    /\ Len(results) = 1
    /\ Last(stdout).err.type = "UnsupportedKind"
    /\ CallsOf("print") = {}

\* C3: a dispatch on one of the seven recognized kinds, in any casing of its
\* letters, selects the converter named after that kind and returns no
\* UnsupportedKind error.
C3_DispatchComplete ==
    \A p \in CallsOf("dispatch") :
      \A kc \in ConverterNamed :
        IsCasingOf(calls[p].arg, kc[1]) =>
          /\ calls[p].conv = kc[2]
          /\ calls[p].out = Nil

C3_Witness ==
    /\ \E p \in CallsOf("dispatch") :
         /\ calls[p].arg = WithUpper(workloadendpointStr, {1, 9})
         /\ calls[p].conv = "WorkloadEndpoint"
    /\ pc = "APIV1ToBackendV1"

\* C4: a dispatch on a kind whose lower-cased form is none of the seven
\* recognized kinds returns an UnsupportedKind error carrying the kind as the
\* resource spelled it, and neither stage is called for that resource.
C4_DispatchRejects ==
    \A p \in CallsOf("dispatch") :
      ToLower(calls[p].arg) \notin RecognizedKinds =>
        /\ calls[p].arg = resV1[calls[p].idx].kind
        /\ calls[p].out = [tag |-> "err", type |-> "UnsupportedKind",
                           kind |-> resV1[calls[p].idx].kind]
        /\ calls[p].conv = "default"
        /\ \A q \in DOMAIN calls :
             calls[q].op \in StageOps => calls[q].idx # calls[p].idx
        /\ pc = "checkErr" => ret = [res |-> Nil, err |-> calls[p].out]

C4_Witness ==
    /\ pc = "exited"
    /\ \E p \in CallsOf("dispatch") :
         /\ calls[p].arg = WithUpper(widgetStr, {1})
         /\ calls[p].out.kind = WithUpper(widgetStr, {1})
         /\ ToLower(calls[p].arg) # calls[p].arg
         /\ Last(stdout).err = calls[p].out

\* C5 as stated: a failed dispatch or stage never ends the process; the
\* driver's outcome is the error, handed back to its caller.
C5_NeverExits ==
    (calls # << >> /\ Last(calls).op # "print" /\ CallFailed(Len(calls))) =>
        exit # "exit1"

\* C5 as amended: when dispatch or a stage fails, convertResource returns the
\* error as a value to Convert, and Convert itself prints "Failed to execute
\* command: <error>" and ends the process with status 1; it never returns to
\* its caller.
C5_ExitsWithError ==
    (calls # << >> /\ Last(calls).op # "print" /\ CallFailed(Len(calls))) =>
        \/ /\ pc = "checkErr"
           /\ exit = "running"
           /\ ret = [res |-> Nil, err |-> CallError(Len(calls))]
        \/ /\ pc = "exited"
           /\ exit = "exit1"
           /\ Last(stdout) = FailedLine(CallError(Len(calls)))

C5_Witness ==
    /\ pc = "exited"
    /\ exit = "exit1"
    /\ calls # << >>
    /\ Last(calls).op = "BackendV1ToAPIV3"
    /\ CallFailed(Len(calls))
    /\ Last(stdout) = FailedLine(Last(calls).out.err)

\* C6: when every resource converted and the printer returned an error, the
\* run does not finish as a success: Convert does not return normally.
C6_PrinterErrorPropagated ==
    (pc = "done" /\ \E p \in CallsOf("print") : CallFailed(p)) =>
        exit # "returned"

\* C7: with an empty batch loaded there is no dispatch and no stage call, no
\* failure is printed, the process is not ended, and the one call the
\* finished run has made hands the printer the empty sequence.
C7_EmptyBatch ==
    (loaded /\ resV1 = << >>) =>
        /\ \A p \in DOMAIN calls : calls[p].op = "print" /\ calls[p].arg = << >>
        /\ results = << >>
        /\ exit # "exit1"
        /\ \A k \in DOMAIN stdout : stdout[k].err \in {PrinterError}
        /\ pc = "done" => Len(calls) = 1
        /\ pc \in {"loop", "log", "print", "done"}

C7_Witness ==
    /\ loaded
    /\ resV1 = << >>
    /\ pc = "done"
    /\ Len(calls) = 1
    /\ calls[1].op = "print"
    /\ calls[1].arg = << >>
    /\ calls[1].out = Nil
    /\ stdout = << >>

\* C8: with k the smallest failing index, no call is ever made for an index
\* above k, every resource below k is converted before resource k is
\* dispatched, and the finished run reports exactly resource k's error.
C8_FailFastInOrder ==
    (loaded /\ ~AllConvertible) =>
        LET k == FirstFailing
        IN /\ \A p \in DOMAIN calls : calls[p].idx <= k
           /\ \A p \in DOMAIN calls :
                calls[p].idx = k =>
                  /\ Len(results) = k - 1
                  /\ \A j \in 1..(k - 1) : results[j] = Converted(resV1[j]).res
           /\ Finished =>
                /\ Last(stdout) = FailedLine(Converted(resV1[k]).err)
                /\ Last(calls).idx = k
                /\ CallError(Len(calls)) = Converted(resV1[k]).err

C8_Witness ==
    /\ pc = "exited"
    /\ loaded
    /\ Len(resV1) = 2
    /\ resV1[1].shape = "badV1"
    /\ KindSwitch(ToLower(resV1[1].kind)) # "default"
    /\ KindSwitch(ToLower(resV1[2].kind)) = "default"
    /\ Last(stdout).err.type = "ConversionError"
    /\ \A p \in DOMAIN calls : calls[p].idx = 1

\* C9: the first stage is called right after the dispatch of the same
\* resource, on the dispatched converter; the second stage is called right
\* after a first stage that succeeded, on the same converter and on the
\* KVPair the first stage returned; a failed first stage is followed by no
\* second stage and its error is returned unchanged; a failed second stage
\* returns its error unchanged and appends nothing.
C9_TwoStageOrder ==
    /\ \A p \in CallsOf("APIV1ToBackendV1") :
         /\ p > 1
         /\ calls[p - 1].op = "dispatch"
         /\ calls[p - 1].idx = calls[p].idx
         /\ calls[p - 1].conv = calls[p].conv
         /\ calls[p].conv # "default"
         /\ calls[p].arg = resV1[calls[p].idx]
         /\ CallFailed(p) =>
              /\ p = Len(calls)
              /\ pc = "checkErr" => ret = [res |-> Nil, err |-> calls[p].out.err]
              /\ pc = "exited" => Last(stdout) = FailedLine(calls[p].out.err)
              /\ Len(results) = calls[p].idx - 1
    /\ \A p \in CallsOf("BackendV1ToAPIV3") :
         /\ p > 1
         /\ calls[p - 1].op = "APIV1ToBackendV1"
         /\ calls[p - 1].idx = calls[p].idx
         /\ calls[p - 1].conv = calls[p].conv
         /\ calls[p - 1].out.err = Nil
         /\ calls[p].arg = calls[p - 1].out.kvp
         /\ CallFailed(p) =>
              /\ p = Len(calls)
              /\ pc = "checkErr" => ret = [res |-> Nil, err |-> calls[p].out.err]
              /\ pc = "exited" => Last(stdout) = FailedLine(calls[p].out.err)
              /\ Len(results) = calls[p].idx - 1
         /\ (~CallFailed(p) /\ p = Len(calls) /\ pc = "checkErr") =>
              ret = [res |-> calls[p].out.res, err |-> Nil]

C9_Witness ==
    /\ pc = "exited"
    /\ Len(calls) = 6
    /\ calls[5].op = "APIV1ToBackendV1"
    /\ ~CallFailed(5)
    /\ calls[6].op = "BackendV1ToAPIV3"
    /\ calls[6].arg = calls[5].out.kvp
    /\ CallFailed(6)
    /\ Len(results) = 1

\* C10: each resource is dispatched at most once and each stage is called at
\* most once for it, the printer is called at most once, and a call that
\* returned an error is the last call of the run.
C10_NoRetry ==
    /\ \A p, q \in DOMAIN calls :
         (calls[p].op = calls[q].op /\ calls[p].idx = calls[q].idx) => p = q
    /\ Cardinality(CallsOf("print")) <= 1
    /\ \A p \in DOMAIN calls : CallFailed(p) => p = Len(calls)
    /\ \A p \in CallsOf("print") : p = Len(calls)

C10_Witness ==
    /\ pc = "exited"
    /\ Len(resV1) = 3
    /\ Len(calls) = 4
    /\ calls[4].op = "dispatch"
    /\ CallFailed(4)
    /\ Cardinality(CallsOf("dispatch")) = 2

===========================================================================
